---- MODULE Spec2Model ----
(***************************************************************************)
(* Model of the diagram engine of VisualizadorDiagrama: the registry of    *)
(* nodes (Diagrama.nodos), the parent/child lists, the inherited           *)
(* constraint layers and the homolog sets of LogicaNodal.py, driven by the *)
(* operations of the core and by the two handlers of server.py that write  *)
(* the graph directly (eliminar_enlace, actualizar_nodo).                  *)
(*                                                                         *)
(* Node objects are identified by their id: ids are never reused, so a     *)
(* reference to a Nodo object and its id name the same thing.  An object   *)
(* that has left the registry keeps its fields for as long as a list of a  *)
(* registered node still holds it, as in Python; after that nothing can    *)
(* read it and the model forgets it.                                       *)
(***************************************************************************)
EXTENDS Integers, Sequences, FiniteSets, TLC

\* ---------------------------------------------------------------- bounds
\* Ids 1..MaxId can be allocated; anadirNodo is not called past that.
MaxId == 3
\* Depth at which the Python interpreter raises RecursionError.
LimiteRecursion == 6
\* Longest list of inherited layers a call may produce (unlinking and linking
\* again the other way round makes the lists grow without limit).
MaxCapas == 2
\* Node names the callers use.
Nombres == {"X", "Y"}
\* Values of num_hijo the callers use (besides None).
Indices == {-1, 0, 2}

Ids == 1..MaxId
\* An optional argument: {} is None, {v} is the value v.
Opt(S) == {{}} \cup {{x} : x \in S}
Valor(o) == CHOOSE x \in o : TRUE

VARIABLES
    nodos,                    \* Diagrama.nodos: the ids registered
    siguiente_id,             \* Diagrama._siguiente_id
    nodo_raiz_id,             \* Diagrama.nodo_raiz_id
    nombre,                   \* Nodo.nombre, per object
    hijos,                    \* Nodo.hijos, per object: sequence of ids
    padres,                   \* Nodo.padres, per object: sequence of ids
    restricciones_heredadas,  \* Nodo.restricciones_heredadas: sequence of sets
    homologos,                \* Nodo.homologos: set of ids
    ultima,                   \* the last call made and what it returned
    hilos                     \* per thread: the enlazarNodos call it is inside

vars == <<nodos, siguiente_id, nodo_raiz_id, nombre, hijos, padres,
          restricciones_heredadas, homologos, ultima, hilos>>

\* ------------------------------------------------------------- helpers
Rango(s) == {s[i] : i \in 1..Len(s)}
Max(a, b) == IF a >= b THEN a ELSE b

\* list.insert(k, x) for 0 <= k <= len(s)
Insertar(s, k, x) == SubSeq(s, 1, k) \o <<x>> \o SubSeq(s, k + 1, Len(s))

\* list.remove(x): drops the first occurrence of x
RECURSIVE Quitar(_, _)
Quitar(s, x) ==
    IF s = <<>> THEN <<>>
    ELSE IF Head(s) = x THEN Tail(s)
    ELSE <<Head(s)>> \o Quitar(Tail(s), x)

\* [h for h in s if h.id != x]
Filtrar(s, x) == SelectSeq(s, LAMBDA h : h # x)

\* The diagram as one value, so that the methods are functions on it.
Diag ==
    [nodos |-> nodos, sig |-> siguiente_id, raiz |-> nodo_raiz_id,
     nombre |-> nombre, hijos |-> hijos, padres |-> padres,
     her |-> restricciones_heredadas, hom |-> homologos]

Instalar(D) ==
    /\ nodos' = D.nodos
    /\ siguiente_id' = D.sig
    /\ nodo_raiz_id' = D.raiz
    /\ nombre' = D.nombre
    /\ hijos' = D.hijos
    /\ padres' = D.padres
    /\ restricciones_heredadas' = D.her
    /\ homologos' = D.hom

\* ------------------------------------------------------------ Nodo
\* Nodo.restricciones_propias: set() at construction, written by nothing.
restricciones_propias(n) == {}

\* Nodo.restricciones: the inherited layers followed by the own layer.
restricciones(D, n) == Append(D.her[n], restricciones_propias(n))

\* zip in place of zip_longest: the merge stops at the shorter list
CombinarCorto(x, y) ==
    [i \in 1..(IF Len(x) <= Len(y) THEN Len(x) ELSE Len(y)) |-> x[i] \cup y[i]]

\* [a | b for a, b in zip_longest(x, y, fillvalue=set())]
Combinar(x, y) ==
    [i \in 1..Max(Len(x), Len(y)) |->
        (IF i <= Len(x) THEN x[i] ELSE {}) \cup (IF i <= Len(y) THEN y[i] ELSE {})]

\* ------------------------------------------------------------ Diagrama
\* Diagrama.__init__ with _crear_nodo_raiz
DiagramaNuevo(nom) ==
    [nodos |-> {1}, sig |-> 2, raiz |-> 1,
     nombre |-> [n \in Ids |-> IF n = 1 THEN nom ELSE ""],
     hijos |-> [n \in Ids |-> <<>>],
     padres |-> [n \in Ids |-> <<>>],
     her |-> [n \in Ids |-> <<>>],
     hom |-> [n \in Ids |-> {}]]

\* nodo.homologos not rebuilt: the nodes of the name are added to what the
\* set held before
actualizarHomologosAcumula(D, id, nom) ==
    IF id \notin D.nodos THEN D
    ELSE LET iguales == {n \in D.nodos : D.nombre[n] = nom /\ n # id}
         IN [D EXCEPT !.hom = [n \in Ids |->
                IF n = id THEN D.hom[id] \cup iguales
                ELSE IF n \in iguales THEN D.hom[n] \cup {id}
                ELSE D.hom[n]]]

actualizarHomologos(D, id, nom) ==
    IF id \notin D.nodos THEN D
    ELSE LET iguales == {n \in D.nodos : D.nombre[n] = nom /\ n # id}
         IN [D EXCEPT !.hom = [n \in Ids |->
                IF n = id THEN iguales
                ELSE IF n \in iguales THEN D.hom[n] \cup {id}
                ELSE D.hom[n]]]

\* padre.hijos.insert(num_hijo, nodo) without the range test: Python counts a
\* negative index from the end and clamps
posicionHijoSinGuarda(lista, num_hijo) ==
    IF num_hijo = {} THEN Len(lista)
    ELSE IF Valor(num_hijo) < 0 THEN Max(Len(lista) + Valor(num_hijo), 0)
    ELSE IF Valor(num_hijo) > Len(lista) THEN Len(lista)
    ELSE Valor(num_hijo)

\* Position at which anadirNodo puts the new child in the parent's list.
posicionHijo(lista, num_hijo) ==
    IF num_hijo # {} /\ 0 <= Valor(num_hijo) /\ Valor(num_hijo) <= Len(lista)
    THEN Valor(num_hijo)
    ELSE Len(lista)

\* the new id taken from the size of the registry instead of the counter
anadirNodoReusaId(D, nom, id_padre, num_hijo) ==
    LET id == Cardinality(D.nodos) + 1
        D1 == [D EXCEPT !.sig = @ + 1, !.nombre[id] = nom]
        D2 == IF id_padre # {} /\ Valor(id_padre) \in D1.nodos
              THEN LET p == Valor(id_padre)
                   IN [D1 EXCEPT !.padres[id] = Append(@, p),
                                 !.her[id] = restricciones(D1, p),
                                 !.hijos[p] = Insertar(@, posicionHijo(@, num_hijo), id)]
              ELSE D1
        D3 == [D2 EXCEPT !.nodos = @ \cup {id}]
    IN [d |-> actualizarHomologos(D3, id, nom), ret |-> id]

anadirNodo(D, nom, id_padre, num_hijo) ==
    LET id == D.sig
        D1 == [D EXCEPT !.sig = id + 1, !.nombre[id] = nom]
        D2 == IF id_padre # {} /\ Valor(id_padre) \in D1.nodos
              THEN LET p == Valor(id_padre)
                   IN [D1 EXCEPT !.padres[id] = Append(@, p),
                                 !.her[id] = restricciones(D1, p),
                                 !.hijos[p] = Insertar(@, posicionHijo(@, num_hijo), id)]
              ELSE D1
        D3 == [D2 EXCEPT !.nodos = @ \cup {id}]
    IN [d |-> actualizarHomologos(D3, id, nom), ret |-> id]

\* only the first parent loses id, as if a node had one parent
quitarDelPrimerPadre(D, id) ==
    IF D.padres[id] # <<>> /\ Head(D.padres[id]) \in D.nodos
    THEN [D EXCEPT !.hijos[Head(D.padres[id])] = Filtrar(@, id)]
    ELSE D

\* eliminarNodo, "Eliminar referencias en padres": the parents still registered
\* lose every occurrence of id in their hijos.
quitarDePadres(D, id) ==
    [D EXCEPT !.hijos = [n \in Ids |->
        IF n \in Rango(D.padres[id]) /\ n \in D.nodos
        THEN Filtrar(D.hijos[n], id)
        ELSE D.hijos[n]]]

\* eliminarNodo, "Actualizar homologos restantes": the nodes of the copy of
\* id's homologos taken before the removal forget id.
quitarDeHomologos(D, id, copia) ==
    [D EXCEPT !.hom = [n \in Ids |->
        IF n \in copia /\ n \in D.nodos THEN D.hom[n] \ {id} ELSE D.hom[n]]]

\* prof is the depth of the Python call stack; exc says that the call raised
\* RecursionError, and d is then the diagram as the unwinding left it.
RECURSIVE eliminarNodo(_, _, _), eliminarCadaHijo(_, _, _)
\* a child that has another parent is kept
RECURSIVE eliminarCadaHijoHuerfano(_, _, _)
eliminarCadaHijoHuerfano(D, copia, prof) ==
    IF copia = <<>> THEN [d |-> D, exc |-> FALSE]
    ELSE IF Len(D.padres[Head(copia)]) >= 2
    THEN eliminarCadaHijoHuerfano(D, Tail(copia), prof)
    ELSE LET R == eliminarNodo(D, Head(copia), prof + 1)
         IN IF R.exc THEN [d |-> R.d, exc |-> TRUE]
            ELSE eliminarCadaHijoHuerfano(R.d, Tail(copia), prof)

\* for hijo in hijos_copia: self.eliminarNodo(hijo.id)
eliminarCadaHijo(D, copia, prof) ==
    IF copia = <<>> THEN [d |-> D, exc |-> FALSE]
    ELSE LET R == eliminarNodo(D, Head(copia), prof + 1)
         IN IF R.exc THEN [d |-> R.d, exc |-> TRUE]
            ELSE eliminarCadaHijo(R.d, Tail(copia), prof)

\* the root id cleared (None, here 0) when the node deleted is the root
eliminarNodoLimpiaRaiz(D, id, prof) ==
    IF prof > LimiteRecursion THEN [d |-> D, ret |-> FALSE, exc |-> TRUE]
    ELSE IF id \notin D.nodos THEN [d |-> D, ret |-> FALSE, exc |-> FALSE]
    ELSE LET R == eliminarCadaHijo(D, D.hijos[id], prof)
             D1 == R.d
             D2 == quitarDePadres(D1, id)
             D3 == [D2 EXCEPT !.nodos = @ \ {id},
                              !.raiz = IF id = @ THEN 0 ELSE @]
         IN IF R.exc THEN [d |-> D1, ret |-> FALSE, exc |-> TRUE]
            ELSE [d |-> quitarDeHomologos(D3, id, D1.hom[id]),
                  ret |-> TRUE, exc |-> FALSE]

eliminarNodo(D, id, prof) ==
    IF prof > LimiteRecursion THEN [d |-> D, ret |-> FALSE, exc |-> TRUE]
    ELSE IF id \notin D.nodos THEN [d |-> D, ret |-> FALSE, exc |-> FALSE]
    ELSE LET R == eliminarCadaHijo(D, D.hijos[id], prof)
             D1 == R.d
             D2 == quitarDePadres(D1, id)
             D3 == [D2 EXCEPT !.nodos = @ \ {id}]
         IN IF R.exc THEN [d |-> D1, ret |-> FALSE, exc |-> TRUE]
            ELSE [d |-> quitarDeHomologos(D3, id, D1.hom[id]),
                  ret |-> TRUE, exc |-> FALSE]

RECURSIVE tiene_descendiente(_, _, _, _), algunHijoDesciende(_, _, _, _)
\* return tiene_descendiente(hijo, objetivo) inside the loop: only the first
\* child is searched
algunHijoDesciendePrimero(D, visitados, lista, objetivo) ==
    IF lista = <<>> THEN [r |-> FALSE, v |-> visitados]
    ELSE tiene_descendiente(D, visitados, Head(lista), objetivo)

\* for hijo in self.nodos[nodo_id].hijos: if tiene_descendiente(...): return True
algunHijoDesciende(D, visitados, lista, objetivo) ==
    IF lista = <<>> THEN [r |-> FALSE, v |-> visitados]
    ELSE LET R == tiene_descendiente(D, visitados, Head(lista), objetivo)
         IN IF R.r THEN R
            ELSE algunHijoDesciende(D, R.v, Tail(lista), objetivo)

\* r is the value returned, v the set visitados after the call
tiene_descendiente(D, visitados, nodo_id, objetivo) ==
    IF nodo_id = objetivo THEN [r |-> TRUE, v |-> visitados]
    ELSE IF nodo_id \in visitados THEN [r |-> FALSE, v |-> visitados]
    ELSE IF nodo_id \in D.nodos
         THEN algunHijoDesciende(D, visitados \cup {nodo_id}, D.hijos[nodo_id], objetivo)
         ELSE [r |-> FALSE, v |-> visitados \cup {nodo_id}]

\* the search run from the parent towards the child
creaCicloInvertido(D, id_padre, id_hijo) ==
    tiene_descendiente(D, {}, id_padre, id_hijo).r

\* the search stopped after the child's own children
creaCicloDirecto(D, id_padre, id_hijo) ==
    id_padre = id_hijo \/ id_padre \in Rango(D.hijos[id_hijo])

\* only the self-link is recognised
creaCicloSoloPropio(D, id_padre, id_hijo) == id_padre = id_hijo

creaCiclo(D, id_padre, id_hijo) == tiene_descendiente(D, {}, id_hijo, id_padre).r

\* hijo.restricciones_heredadas = nodo.restricciones.copy(), as in anadirNodo:
\* the child's earlier layers are dropped instead of merged
heredarReemplaza(D, nodo, hijo) ==
    [D EXCEPT !.her[hijo] = restricciones(D, nodo)]

\* the merge of the layers of nodo into those of hijo (in enlazarNodos and in
\* _propagarRestricciones)
heredar(D, nodo, hijo) ==
    [D EXCEPT !.her[hijo] = Combinar(restricciones(D, nodo), D.her[hijo])]

RECURSIVE propagarRestricciones(_, _, _), propagarCadaHijo(_, _, _, _)
\* for hijo in nodo.hijos: merge, then self._propagarRestricciones(hijo.id)
propagarCadaHijo(D, id_nodo, lista, prof) ==
    IF lista = <<>> THEN [d |-> D, exc |-> FALSE]
    ELSE LET R == propagarRestricciones(heredar(D, id_nodo, Head(lista)),
                                        Head(lista), prof + 1)
         IN IF R.exc THEN R
            ELSE propagarCadaHijo(R.d, id_nodo, Tail(lista), prof)

\* the descendants are not visited
propagarNada(D, id_nodo, prof) == [d |-> D, exc |-> FALSE]

propagarRestricciones(D, id_nodo, prof) ==
    IF prof > LimiteRecursion THEN [d |-> D, exc |-> TRUE]
    ELSE IF id_nodo \notin D.nodos THEN [d |-> D, exc |-> FALSE]
    ELSE propagarCadaHijo(D, id_nodo, D.hijos[id_nodo], prof)

\* enlazarNodos, "Crear enlace"
crearEnlace(D, id_padre, id_hijo) ==
    [D EXCEPT !.hijos[id_padre] = Append(@, id_hijo),
              !.padres[id_hijo] = Append(@, id_padre)]

\* the edge appended before the cycle test, and left there when the test fails
enlazarNodosEnlazaAntes(D, id_padre, id_hijo) ==
    IF id_padre \notin D.nodos \/ id_hijo \notin D.nodos
    THEN [d |-> D, ret |-> FALSE, exc |-> FALSE]
    ELSE IF id_hijo \in Rango(D.hijos[id_padre])
    THEN [d |-> D, ret |-> FALSE, exc |-> FALSE]
    ELSE IF creaCiclo(D, id_padre, id_hijo)
    THEN [d |-> crearEnlace(D, id_padre, id_hijo), ret |-> FALSE, exc |-> FALSE]
    ELSE LET D1 == heredar(crearEnlace(D, id_padre, id_hijo), id_padre, id_hijo)
             R == propagarRestricciones(D1, id_hijo, 1)
         IN [d |-> R.d, ret |-> ~R.exc, exc |-> R.exc]

\* without the test "if hijo in padre.hijos"
enlazarNodosSinYaEnlazado(D, id_padre, id_hijo) ==
    IF id_padre \notin D.nodos \/ id_hijo \notin D.nodos
    THEN [d |-> D, ret |-> FALSE, exc |-> FALSE]
    ELSE IF creaCiclo(D, id_padre, id_hijo)
    THEN [d |-> D, ret |-> FALSE, exc |-> FALSE]
    ELSE LET D1 == heredar(crearEnlace(D, id_padre, id_hijo), id_padre, id_hijo)
             R == propagarRestricciones(D1, id_hijo, 1)
         IN [d |-> R.d, ret |-> ~R.exc, exc |-> R.exc]

enlazarNodos(D, id_padre, id_hijo) ==
    IF id_padre \notin D.nodos \/ id_hijo \notin D.nodos
    THEN [d |-> D, ret |-> FALSE, exc |-> FALSE]
    ELSE IF id_hijo \in Rango(D.hijos[id_padre])
    THEN [d |-> D, ret |-> FALSE, exc |-> FALSE]
    ELSE IF creaCiclo(D, id_padre, id_hijo)
    THEN [d |-> D, ret |-> FALSE, exc |-> FALSE]
    ELSE LET D1 == heredar(crearEnlace(D, id_padre, id_hijo), id_padre, id_hijo)
             R == propagarRestricciones(D1, id_hijo, 1)
         IN [d |-> R.d, ret |-> ~R.exc, exc |-> R.exc]

\* --------------------------------------------------------------- rendering
\* self.nodos.values(): a dict yields its entries in insertion order, and ids
\* are inserted in increasing order, so the registry is walked by increasing id.
RECURSIVE EnOrden(_)
EnOrden(S) ==
    IF S = {} THEN <<>>
    ELSE LET m == CHOOSE x \in S : \A y \in S : x <= y
         IN <<m>> \o EnOrden(S \ {m})

\* One line of the Mermaid text: "graph TD", "empty[Sin nodos]",
\* "id[nombre] --> hijo[nombre_hijo]" or "id[nombre]".
Linea(tipo, id, nom, hijo, nom_hijo) ==
    [tipo |-> tipo, id |-> id, nombre |-> nom, hijo |-> hijo, nombre_hijo |-> nom_hijo]

\* Nodo.obtenerDiagrama: one line for every entry of self.hijos
obtenerDiagrama(D, n) ==
    [i \in 1..Len(D.hijos[n]) |->
        Linea("arista", n, D.nombre[n], D.hijos[n][i], D.nombre[D.hijos[n][i]])]

RECURSIVE Concatenar(_)
\* lineas.extend(...) over a sequence of lists
Concatenar(ss) == IF ss = <<>> THEN <<>> ELSE Head(ss) \o Concatenar(Tail(ss))

\* "nodos sin hijos (hojas)" taken at its word: only the nodes that have
\* children count as connected
nodos_con_hijos(D) == {n \in D.nodos : D.hijos[n] # <<>>}

\* the nodes that have children, and the children of those nodes
nodos_con_conexiones(D) ==
    {n \in D.nodos : D.hijos[n] # <<>>} \cup UNION {Rango(D.hijos[n]) : n \in D.nodos}

\* _construirDiagrama, the text as the list of its lines
construirDiagrama(D) ==
    IF D.nodos = {} THEN <<Linea("graph TD", 0, "", 0, ""), Linea("empty", 0, "Sin nodos", 0, "")>>
    ELSE LET orden == EnOrden(D.nodos)
             aristas == Concatenar([i \in 1..Len(orden) |-> obtenerDiagrama(D, orden[i])])
             sueltos == EnOrden(D.nodos \ nodos_con_conexiones(D))
         IN <<Linea("graph TD", 0, "", 0, "")>> \o aristas
            \o [i \in 1..Len(sueltos) |-> Linea("nodo", sueltos[i], D.nombre[sueltos[i]], 0, "")]

\* ------------------------------------------------------------ server.py
\* the child's layers recomputed after the removal: a child left without
\* parents loses them
eliminar_enlaceRecalcula(D, id_padre, id_hijo) ==
    IF id_padre \notin D.nodos \/ id_hijo \notin D.nodos
    THEN [d |-> D, ret |-> FALSE]
    ELSE LET D1 == IF id_hijo \in Rango(D.hijos[id_padre])
                   THEN [D EXCEPT !.hijos[id_padre] = Quitar(@, id_hijo)]
                   ELSE D
             D2 == IF id_padre \in Rango(D1.padres[id_hijo])
                   THEN [D1 EXCEPT !.padres[id_hijo] = Quitar(@, id_padre)]
                   ELSE D1
             D3 == IF D2.padres[id_hijo] = <<>>
                   THEN [D2 EXCEPT !.her[id_hijo] = <<>>]
                   ELSE D2
         IN [d |-> D3, ret |-> TRUE]

\* eliminar_enlace: 404 (ret FALSE) for an unknown id, else "Enlace eliminado"
eliminar_enlace(D, id_padre, id_hijo) ==
    IF id_padre \notin D.nodos \/ id_hijo \notin D.nodos
    THEN [d |-> D, ret |-> FALSE]
    ELSE LET D1 == IF id_hijo \in Rango(D.hijos[id_padre])
                   THEN [D EXCEPT !.hijos[id_padre] = Quitar(@, id_hijo)]
                   ELSE D
             D2 == IF id_padre \in Rango(D1.padres[id_hijo])
                   THEN [D1 EXCEPT !.padres[id_hijo] = Quitar(@, id_padre)]
                   ELSE D1
         IN [d |-> D2, ret |-> TRUE]

\* actualizar_nodo with datos.nombre given: 404 (ret FALSE) for an unknown id
actualizar_nodo(D, nodo_id, nom) ==
    IF nodo_id \notin D.nodos THEN [d |-> D, ret |-> FALSE]
    ELSE [d |-> actualizarHomologos([D EXCEPT !.nombre[nodo_id] = nom], nodo_id, nom),
          ret |-> TRUE]

\* ------------------------------------------------------------ the calls
\* Objects a registered node can still reach through hijos and padres.
RECURSIVE alcanzables(_, _)
alcanzables(D, S) ==
    LET T == S \cup UNION {Rango(D.hijos[n]) \cup Rango(D.padres[n]) : n \in S}
    IN IF T = S THEN S ELSE alcanzables(D, T)

\* del self.nodos[id] drops the registry's reference: an object no registered
\* node reaches any more is reclaimed, and its fields are gone with it.
recolectar(D) ==
    LET vivos == alcanzables(D, D.nodos)
    IN [D EXCEPT
          !.nombre = [n \in Ids |-> IF n \in vivos THEN D.nombre[n] ELSE ""],
          !.hijos = [n \in Ids |-> IF n \in vivos THEN D.hijos[n] ELSE <<>>],
          !.padres = [n \in Ids |-> IF n \in vivos THEN D.padres[n] ELSE <<>>],
          !.her = [n \in Ids |-> IF n \in vivos THEN D.her[n] ELSE <<>>],
          !.hom = [n \in Ids |-> IF n \in vivos THEN D.hom[n] ELSE {}]]

\* The last call: its name, its id arguments a and b (0 when it has none),
\* num_hijo, what it returned (ret; exc when it raised instead), and the
\* registry and the links as they were when the call was made.
Llamada(op, a, b, idx, ret, exc) ==
    [op |-> op, a |-> a, b |-> b, idx |-> idx, ret |-> ret, exc |-> exc,
     nodos |-> nodos, hijos |-> hijos, padres |-> padres]

\* The threads that may be inside enlazarNodos at the same time, and a thread
\* that is inside no call and has made none.
Hilos == {1, 2}

Libre == [pc |-> "libre", padre |-> 0, hijo |-> 0, ret |-> FALSE, exc |-> FALSE]

\* A call that would make a list of layers longer than the bound is not made.
DentroDeCapas(D) == \A n \in Ids : Len(D.her[n]) <= MaxCapas

Init ==
    \E nom \in Nombres :
        /\ nodos = DiagramaNuevo(nom).nodos
        /\ siguiente_id = DiagramaNuevo(nom).sig
        /\ nodo_raiz_id = DiagramaNuevo(nom).raiz
        /\ nombre = DiagramaNuevo(nom).nombre
        /\ hijos = DiagramaNuevo(nom).hijos
        /\ padres = DiagramaNuevo(nom).padres
        /\ restricciones_heredadas = DiagramaNuevo(nom).her
        /\ homologos = DiagramaNuevo(nom).hom
        /\ ultima = [op |-> "CreateDiagram", a |-> 1, b |-> 0, idx |-> {},
                     ret |-> TRUE, exc |-> FALSE, nodos |-> {},
                     hijos |-> DiagramaNuevo(nom).hijos,
                     padres |-> DiagramaNuevo(nom).padres]
        /\ hilos = [h \in Hilos |-> Libre]

\* Diagrama(nombre): servidor.diagramas[nombre] = diagrama replaces the diagram
CreateDiagram ==
    \E nom \in Nombres :
        /\ Instalar(DiagramaNuevo(nom))
        /\ ultima' = [op |-> "CreateDiagram", a |-> 1, b |-> 0, idx |-> {},
                      ret |-> TRUE, exc |-> FALSE, nodos |-> {},
                      hijos |-> DiagramaNuevo(nom).hijos,
                      padres |-> DiagramaNuevo(nom).padres]
        /\ UNCHANGED hilos

AddNode ==
    /\ siguiente_id <= MaxId
    /\ \E nom \in Nombres, id_padre \in Opt(Ids), num_hijo \in Opt(Indices) :
        \E R \in {anadirNodo(Diag, nom, id_padre, num_hijo)} :
            /\ DentroDeCapas(R.d)
            /\ Instalar(R.d)
            /\ ultima' = Llamada("AddNode", R.ret,
                                 IF id_padre = {} THEN 0 ELSE Valor(id_padre),
                                 num_hijo, TRUE, FALSE)
            /\ UNCHANGED hilos

DeleteNode ==
    \E id \in Ids :
        \E R \in {eliminarNodo(Diag, id, 1)} :
            /\ \E D \in {recolectar(R.d)} : Instalar(D)
            /\ ultima' = Llamada("DeleteNode", id, 0, {}, R.ret, R.exc)
            /\ UNCHANGED hilos

Link ==
    \E id_padre \in Ids, id_hijo \in Ids :
        \E R \in {enlazarNodos(Diag, id_padre, id_hijo)} :
            /\ R.exc \/ DentroDeCapas(R.d)
            /\ Instalar(R.d)
            /\ ultima' = Llamada("Link", id_padre, id_hijo, {}, R.ret, R.exc)
            /\ UNCHANGED hilos

Unlink ==
    \E id_padre \in Ids, id_hijo \in Ids :
        \E R \in {eliminar_enlace(Diag, id_padre, id_hijo)} :
            /\ \E D \in {recolectar(R.d)} : Instalar(D)
            /\ ultima' = Llamada("Unlink", id_padre, id_hijo, {}, R.ret, FALSE)
            /\ UNCHANGED hilos

Rename ==
    \E nodo_id \in Ids, nom \in Nombres :
        \E R \in {actualizar_nodo(Diag, nodo_id, nom)} :
            /\ Instalar(R.d)
            /\ ultima' = Llamada("Rename", nodo_id, 0, {}, R.ret, FALSE)
            /\ UNCHANGED hilos

Next == CreateDiagram \/ AddNode \/ DeleteNode \/ Link \/ Unlink \/ Rename

Spec == Init /\ [][Next]_vars

\* ------------------------------------------ enlazarNodos without a lock
\* The same method run by two threads with nothing serializing them, on a
\* diagram built by AddNode calls: each thread makes one call, each statement
\* of enlazarNodos is a step of its own, and the steps of the two calls
\* interleave. hilos[h].pc is the statement thread h is about to run.
Llamar(h) ==
    /\ hilos[h].pc = "libre"
    /\ \E id_padre \in Ids, id_hijo \in Ids :
          hilos' = [hilos EXCEPT ![h] = [pc |-> "existe", padre |-> id_padre,
                                         hijo |-> id_hijo, ret |-> FALSE, exc |-> FALSE]]
    /\ UNCHANGED <<nodos, siguiente_id, nodo_raiz_id, nombre, hijos, padres,
                   restricciones_heredadas, homologos, ultima>>

Retornar(h, ret, exc) ==
    hilos' = [hilos EXCEPT ![h].pc = "fin", ![h].ret = ret, ![h].exc = exc]

\* if id_padre not in self.nodos or id_hijo not in self.nodos: return False
\* if hijo in padre.hijos: return False
PasoExiste(h) ==
    /\ hilos[h].pc = "existe"
    /\ IF \/ hilos[h].padre \notin nodos \/ hilos[h].hijo \notin nodos
          \/ hilos[h].hijo \in Rango(hijos[hilos[h].padre])
       THEN Retornar(h, FALSE, FALSE)
       ELSE hilos' = [hilos EXCEPT ![h].pc = "ciclo"]
    /\ UNCHANGED <<nodos, siguiente_id, nodo_raiz_id, nombre, hijos, padres,
                   restricciones_heredadas, homologos, ultima>>

\* if self._creaCiclo(id_padre, id_hijo): return False
PasoCiclo(h) ==
    /\ hilos[h].pc = "ciclo"
    /\ IF creaCiclo(Diag, hilos[h].padre, hilos[h].hijo)
       THEN Retornar(h, FALSE, FALSE)
       ELSE hilos' = [hilos EXCEPT ![h].pc = "hijos"]
    /\ UNCHANGED <<nodos, siguiente_id, nodo_raiz_id, nombre, hijos, padres,
                   restricciones_heredadas, homologos, ultima>>

\* padre.hijos.append(hijo)
PasoHijos(h) ==
    /\ hilos[h].pc = "hijos"
    /\ hijos' = [hijos EXCEPT ![hilos[h].padre] = Append(@, hilos[h].hijo)]
    /\ hilos' = [hilos EXCEPT ![h].pc = "padres"]
    /\ UNCHANGED <<nodos, siguiente_id, nodo_raiz_id, nombre, padres,
                   restricciones_heredadas, homologos, ultima>>

\* hijo.padres.append(padre)
PasoPadres(h) ==
    /\ hilos[h].pc = "padres"
    /\ padres' = [padres EXCEPT ![hilos[h].hijo] = Append(@, hilos[h].padre)]
    /\ hilos' = [hilos EXCEPT ![h].pc = "capas"]
    /\ UNCHANGED <<nodos, siguiente_id, nodo_raiz_id, nombre, hijos,
                   restricciones_heredadas, homologos, ultima>>

\* hijo.restricciones_heredadas = restricciones_combinadas
PasoCapas(h) ==
    /\ hilos[h].pc = "capas"
    /\ Instalar(heredar(Diag, hilos[h].padre, hilos[h].hijo))
    /\ hilos' = [hilos EXCEPT ![h].pc = "propagar"]
    /\ UNCHANGED ultima

\* return True with the propagation left out
PasoRetornarSinPropagar(h) ==
    /\ hilos[h].pc = "propagar"
    /\ Retornar(h, TRUE, FALSE)
    /\ UNCHANGED <<nodos, siguiente_id, nodo_raiz_id, nombre, hijos, padres,
                   restricciones_heredadas, homologos, ultima>>

\* self._propagarRestricciones(hijo.id); return True
PasoPropagar(h) ==
    /\ hilos[h].pc = "propagar"
    /\ \E R \in {propagarRestricciones(Diag, hilos[h].hijo, 1)} :
          /\ Instalar(R.d)
          /\ Retornar(h, ~R.exc, R.exc)
    /\ UNCHANGED ultima

NextIntercalado ==
    \/ (\A h \in Hilos : hilos[h].pc = "libre") /\ AddNode
    \/ \E h \in Hilos :
          \/ Llamar(h)
          \/ PasoExiste(h)
          \/ PasoCiclo(h)
          \/ PasoHijos(h)
          \/ PasoPadres(h)
          \/ PasoCapas(h)
          \/ PasoPropagar(h)

SpecIntercalado == Init /\ [][NextIntercalado]_vars

\* ================================================================ claims
\* Reachability along children edges, computed on sets (not by the code's
\* search): the ids reached from n by one or more edges of H.
HijosDe(H, S) == UNION {Rango(H[n]) : n \in S}

RECURSIVE Cierre(_, _)
Cierre(H, S) ==
    LET T == S \cup HijosDe(H, S) IN IF T = S THEN S ELSE Cierre(H, T)

Descendientes(H, n) == Cierre(H, HijosDe(H, {n}))

\* The edge p -> c as the declined link (a, b) of the last call would close
\* a cycle: both registered, distinct, not yet linked, a below b.
UltimaCerrabaCiclo ==
    /\ ultima.op = "Link" /\ ~ultima.ret /\ ~ultima.exc
    /\ ultima.a \in nodos /\ ultima.b \in nodos /\ ultima.a # ultima.b
    /\ ultima.b \notin Rango(hijos[ultima.a])
    /\ ultima.a \in Descendientes(hijos, ultima.b)

\* ---------------------------------------------------------------- C1
\* C1: homolog symmetry. For all registered A and B: B is in A.homologs iff
\* A is in B.homologs iff (A and B have the same name and are distinct).
C1_HomologSymmetry ==
    \A A \in nodos, B \in nodos :
        /\ (B \in homologos[A]) <=> (A \in homologos[B])
        /\ (A \in homologos[B]) <=> (nombre[A] = nombre[B] /\ A # B)

\* ---------------------------------------------------------------- C2
\* C2: after DeleteNode(id) has returned true, id is not registered and no
\* registered node has id in its children, its parents or its homologs.
C2_DeletedIdIsGone ==
    (ultima.op = "DeleteNode" /\ ultima.ret) =>
        /\ ultima.a \notin nodos
        /\ \A n \in nodos :
              /\ ultima.a \notin Rango(hijos[n])
              /\ ultima.a \notin Rango(padres[n])
              /\ ultima.a \notin homologos[n]

\* ---------------------------------------------------------------- C3
\* Link(a, b) of the last call was made on two registered ids.
UltimaLinkValido ==
    ultima.op = "Link" /\ ultima.a \in ultima.nodos /\ ultima.b \in ultima.nodos

\* C3 as stated: for registered parentId and childId, Link returns true iff
\* childId is not an ancestor of parentId and the edge does not exist yet,
\* the pair parentId = childId decided by the same condition.
C3_LinkIffNoAncestor ==
    UltimaLinkValido =>
        (ultima.ret <=>
            (/\ ultima.a \notin Descendientes(ultima.hijos, ultima.b)
             /\ ultima.b \notin Rango(ultima.hijos[ultima.a])))

\* C3 amended: for registered parentId and childId, Link returns true iff
\* parentId is not reachable from childId by zero or more children edges
\* (childId is neither parentId itself nor an ancestor of it) and the edge does
\* not exist yet; a self-link is always declined.
C3_LinkIffNotReachable ==
    UltimaLinkValido =>
        (ultima.ret <=>
            (/\ ultima.a # ultima.b
             /\ ultima.a \notin Descendientes(ultima.hijos, ultima.b)
             /\ ultima.b \notin Rango(ultima.hijos[ultima.a])))

\* a self-link on a registered node was declined
C3_Witness ==
    UltimaLinkValido /\ ultima.a = ultima.b /\ ~ultima.ret /\ ~ultima.exc

\* ---------------------------------------------------------------- C4
\* C4: the children relation is acyclic: no registered node is reachable
\* from itself by one or more children edges.
C4_Acyclic == \A n \in nodos : n \notin Descendientes(hijos, n)

\* a link that would have closed a cycle through at least one other node was
\* declined
C4_Witness == UltimaCerrabaCiclo /\ Cardinality(nodos) >= 3

\* ---------------------------------------------------------------- C5
\* C5: parent and child links agree in both directions, and every node that
\* a registered node lists as child or parent is registered.
C5_LinksConsistent ==
    /\ \A P \in nodos : Rango(hijos[P]) \cup Rango(padres[P]) \subseteq nodos
    /\ \A P \in nodos, C \in nodos :
          (C \in Rango(hijos[P])) <=> (P \in Rango(padres[C]))

\* a delete removed a node with several parents, one of which is still there
C5_Witness ==
    /\ ultima.op = "DeleteNode" /\ ultima.ret
    /\ \E d \in ultima.nodos \ nodos, q \in nodos :
          /\ d \in Rango(ultima.hijos[q])
          /\ Len(ultima.padres[d]) >= 2

\* ---------------------------------------------------------------- C6
\* C6: a declined mutation changes nothing: a step that is a Link or a
\* DeleteNode returning false leaves the registry, every node's children,
\* parents, inherited layers, homologs and name, and nextId as they were.
C6_DeclinedChangesNothing ==
    [][ (ultima'.op \in {"Link", "DeleteNode"} /\ ~ultima'.ret) =>
            (/\ ~ultima'.exc
             /\ UNCHANGED <<nodos, siguiente_id, nodo_raiz_id, nombre, hijos,
                            padres, restricciones_heredadas, homologos>>) ]_vars

\* a link declined because it would close a cycle
C6_Witness == UltimaCerrabaCiclo

\* ---------------------------------------------------------------- C7
\* C7: DeleteNode(id) on a registered id returns true and removes from the
\* registry exactly id and the nodes that were descendants of id.
C7_DeleteRemovesSubtree ==
    (ultima.op = "DeleteNode" /\ ultima.a \in ultima.nodos) =>
        /\ ultima.ret
        /\ nodos = ultima.nodos \ ({ultima.a} \cup Descendientes(ultima.hijos, ultima.a))

\* a descendant was removed although a parent of it outside the subtree stays
C7_Witness ==
    /\ ultima.op = "DeleteNode" /\ ultima.ret
    /\ \E d \in Descendientes(ultima.hijos, ultima.a), q \in nodos :
          d \in Rango(ultima.hijos[q]) /\ d \notin nodos

\* ---------------------------------------------------------------- C8
\* The full stack of p: its inherited layers, then its own constraints.
Pila(p) == restricciones_heredadas[p] \o <<restricciones_propias(p)>>

\* Layer i of the union of the full stacks of the nodes of P (a missing layer
\* counts as empty).
CapaDe(P, i) == UNION {IF i <= Len(Pila(p)) THEN Pila(p)[i] ELSE {} : p \in P}

LargoDe(P) == IF P = {} THEN 0 ELSE CHOOSE k \in 0..(MaxCapas + LimiteRecursion + 1) :
                  /\ \A p \in P : Len(Pila(p)) <= k
                  /\ \E p \in P : Len(Pila(p)) = k

UnionDePilas(P) == [i \in 1..LargoDe(P) |-> CapaDe(P, i)]

\* every registered node inherits exactly what its current parents give
CapasExactas ==
    \A n \in nodos : restricciones_heredadas[n] = UnionDePilas(Rango(padres[n]))

\* every registered node inherits at least what its current parents give
CapasSuficientes ==
    \A n \in nodos :
        LET U == UnionDePilas(Rango(padres[n]))
        IN /\ Len(restricciones_heredadas[n]) >= Len(U)
           /\ \A i \in 1..Len(U) : U[i] \subseteq restricciones_heredadas[n][i]

\* C8 as stated: every registered node's inherited layers equal the
\* layer-by-layer union, over its current parents only, of each parent's full
\* stack; a node without a parent has no inherited layer.
C8_LayersFromCurrentParents == CapasExactas

\* C8 amended: the inherited layers equal that union in a new diagram, every
\* operation other than Unlink keeps them equal to it, and Unlink leaves every
\* node's layers as they were, so that after an Unlink a node's layers contain
\* the union over its current parents without being equal to it.
C8_LayersExceptUnlink ==
    /\ CapasExactas
    /\ [][ (CapasExactas /\ ultima'.op # "Unlink") => CapasExactas' ]_vars
    /\ [][ ultima'.op = "Unlink" => UNCHANGED restricciones_heredadas ]_vars
    /\ []CapasSuficientes

\* a link gave a node a second parent whose stack is longer than the first's
C8_Witness ==
    /\ ultima.op = "Link" /\ ultima.ret /\ CapasExactas
    /\ Len(padres[ultima.b]) = 2
    /\ Len(Pila(padres[ultima.b][1])) < Len(Pila(padres[ultima.b][2]))

\* ---------------------------------------------------------------- C9
\* the edge a -> b existed when the last call was made
UltimaAristaExistia ==
    /\ ultima.a \in ultima.nodos /\ ultima.b \in ultima.nodos
    /\ ultima.b \in Rango(ultima.hijos[ultima.a])

\* C9: Unlink reports failure when an id is not registered or the edge does
\* not exist, and then changes nothing; it reports success only when the edge
\* existed, and then the child has left the parent's children and the parent
\* the child's parents.
C9_UnlinkReportsFailure ==
    ultima.op = "Unlink" =>
        /\ ultima.ret <=> UltimaAristaExistia
        /\ ~UltimaAristaExistia =>
              (nodos = ultima.nodos /\ hijos = ultima.hijos /\ padres = ultima.padres)
        /\ UltimaAristaExistia =>
              (/\ ultima.b \notin Rango(hijos[ultima.a])
               /\ ultima.a \notin Rango(padres[ultima.b]))

\* ---------------------------------------------------------------- C10
\* AddNode of the last call was given a registered parent (ultima.b)
UltimaAddConPadre == ultima.op = "AddNode" /\ ultima.b \in ultima.nodos

Clamp(k, lo, hi) == IF k < lo THEN lo ELSE IF k > hi THEN hi ELSE k

\* C10 as stated: the new node is inserted into the parent's children at
\* clamp(childIndex, 0, len(children)), the others keeping their order; without
\* childIndex it is appended last.
C10_InsertClamped ==
    UltimaAddConPadre =>
        LET antes == ultima.hijos[ultima.b]
            pos == IF ultima.idx = {} THEN Len(antes)
                   ELSE Clamp(Valor(ultima.idx), 0, Len(antes))
        IN hijos[ultima.b] = Insertar(antes, pos, ultima.a)

\* C10 amended: the new node is inserted at childIndex when
\* 0 <= childIndex <= len(children), and appended last in every other case
\* (childIndex negative, larger than the length, or absent); the others keep
\* their order.
C10_InsertOrAppend ==
    UltimaAddConPadre =>
        LET antes == ultima.hijos[ultima.b]
            pos == IF ultima.idx # {} /\ Valor(ultima.idx) \in 0..Len(antes)
                   THEN Valor(ultima.idx)
                   ELSE Len(antes)
        IN hijos[ultima.b] = Insertar(antes, pos, ultima.a)

\* a node added with a negative childIndex under a parent that had a child
C10_Witness ==
    /\ UltimaAddConPadre /\ ultima.idx # {} /\ Valor(ultima.idx) < 0
    /\ Len(ultima.hijos[ultima.b]) >= 1
    /\ hijos[ultima.b] = Append(ultima.hijos[ultima.b], ultima.a)

\* ------------------------------------------------------------------ C11
\* An AddNode step registers the id the counter held before the call.
AddRegistraIdNuevo ==
    ultima'.op = "AddNode" =>
        /\ ultima'.a = siguiente_id
        /\ ultima'.a \notin nodos
        /\ siguiente_id' = siguiente_id + 1
        /\ nodos' = nodos \cup {ultima'.a}

\* With id_padre omitted (b = 0) or unknown the new node has no parent and no
\* child, and the links of the nodes registered before do not change.
AddSinPadreNoTocaEnlaces ==
    (ultima'.op = "AddNode" /\ ultima'.b \notin nodos) =>
        /\ hijos'[ultima'.a] = <<>> /\ padres'[ultima'.a] = <<>>
        /\ \A n \in nodos : hijos'[n] = hijos[n] /\ padres'[n] = padres[n]

\* Within one diagram the counter never goes back, whatever is deleted.
ContadorNoRetrocede ==
    ultima'.op # "CreateDiagram" => siguiente_id' >= siguiente_id

\* C11: ids are never reused. The root of a new diagram has id 1; every
\* AddNode call (id_padre omitted, unknown or valid) registers a node under the
\* value of the counter, which is above every id handed out before, also
\* after deletions; every registered id is below the counter.
C11_IdsNeverReused ==
    /\ nodos = {1} /\ siguiente_id = 2
    /\ [](ultima.op = "CreateDiagram" => nodos = {1} /\ siguiente_id = 2)
    /\ [](\A n \in nodos : n < siguiente_id)
    /\ [][AddRegistraIdNuevo]_vars
    /\ [][AddSinPadreNoTocaEnlaces]_vars
    /\ [][ContadorNoRetrocede]_vars

\* AddNode with an unknown id_padre, made after an id below the new one was
\* deleted.
C11_Witness ==
    /\ ultima.op = "AddNode" /\ ultima.b # 0 /\ ultima.b \notin ultima.nodos
    /\ \E k \in 1..(ultima.a - 1) : k \notin ultima.nodos
    /\ ultima.a \in nodos /\ padres[ultima.a] = <<>>

\* ------------------------------------------------------------------ C13
\* C13: on every reachable graph, for every pair of ids whose edge is only
\* proposed, _creaCiclo(id_padre, id_hijo) is true exactly when id_padre is
\* reached from id_hijo by zero or more children edges; so it is true for
\* id_padre = id_hijo and a self-link is always declined. The search returns
\* a truth value and writes nothing: a link it declines leaves the registry
\* and the links as they were.
C13_CycleGuardIsReachability ==
    /\ \A p \in Ids, c \in Ids :
          creaCiclo(Diag, p, c) <=> (p = c \/ p \in Descendientes(hijos, c))
    /\ (ultima.op = "Link" /\ ultima.a = ultima.b) => ~ultima.ret
    /\ (ultima.op = "Link" /\ creaCiclo([Diag EXCEPT !.nodos = ultima.nodos,
                                                    !.hijos = ultima.hijos,
                                                    !.padres = ultima.padres],
                                       ultima.a, ultima.b)) =>
          /\ ~ultima.ret
          /\ nodos = ultima.nodos /\ hijos = ultima.hijos /\ padres = ultima.padres

\* the guard declined a link whose parent lies two edges below the child
C13_Witness ==
    /\ UltimaCerrabaCiclo
    /\ ultima.a \notin Rango(hijos[ultima.b])
    /\ \E x \in Rango(hijos[ultima.b]) : ultima.a \in Rango(hijos[x])

\* ------------------------------------------------------------------ C14
\* A successful Link(p, c) step: c's layers afterwards, against p's stack and
\* c's layers before the call.
LinkCombinaCapas ==
    (ultima'.op = "Link" /\ ultima'.ret) =>
        LET p == ultima'.a
            c == ultima'.b
            pila == Pila(p)
            antes == restricciones_heredadas[c]
            ahora == restricciones_heredadas'[c]
        IN /\ Len(ahora) = Max(Len(restricciones_heredadas[p]) + 1, Len(antes))
           /\ \A i \in 1..Len(ahora) :
                 ahora[i] = (IF i <= Len(pila) THEN pila[i] ELSE {})
                            \cup (IF i <= Len(antes) THEN antes[i] ELSE {})
           /\ \A i \in 1..Len(antes) : antes[i] \subseteq ahora[i]

\* C14: when Link(p, c) succeeds, c's inherited layers become the
\* layer-by-layer union of p's full stack (p's inherited layers followed by
\* p's own constraints) at call time with c's inherited layers before the call;
\* their number is max(len(p.inherited) + 1, len(c.inherited before)) and every
\* layer of c contains the layer it had at that index.
C14_LinkMergesLayers == [][LinkCombinaCapas]_vars

\* a successful link onto a node that already had a parent and more layers
\* than the new parent's stack
C14_Witness ==
    /\ ultima.op = "Link" /\ ultima.ret
    /\ ultima.b \in Rango(hijos[ultima.a])
    /\ Len(ultima.padres[ultima.b]) >= 1
    /\ Len(restricciones_heredadas[ultima.b]) > Len(restricciones_heredadas[ultima.a]) + 1

\* ------------------------------------------------------------------ C15
\* C15: the inherited layers are a fixed point of the propagation. In every
\* reachable state, for every existing edge p -> c, c has at least
\* len(p.inherited) + 1 layers and each layer i of c contains layer i of p's
\* full stack; so running _propagarRestricciones again from any registered
\* node changes nothing.
C15_PropagationFixedPoint ==
    /\ \A p \in nodos : \A c \in Rango(hijos[p]) :
          /\ Len(restricciones_heredadas[c]) >= Len(restricciones_heredadas[p]) + 1
          /\ \A i \in 1..Len(Pila(p)) : Pila(p)[i] \subseteq restricciones_heredadas[c][i]
    /\ \A n \in nodos : propagarRestricciones(Diag, n, 1) = [d |-> Diag, exc |-> FALSE]

\* a successful link onto a node with a child of its own: the propagation had
\* the child's child to bring up to the new depth
C15_Witness ==
    /\ ultima.op = "Link" /\ ultima.ret
    /\ ultima.hijos[ultima.b] # <<>>
    /\ \E d \in Rango(hijos[ultima.b]) :
          /\ Len(padres[d]) = 1
          /\ Len(restricciones_heredadas[d]) = Len(restricciones_heredadas[ultima.a]) + 2

\* ------------------------------------------------------------------ C16
\* An Unlink(p, c) step taken while the edge p -> c exists.
UnlinkSoloEnlace ==
    (/\ ultima'.op = "Unlink"
     /\ ultima'.a \in nodos /\ ultima'.b \in nodos
     /\ ultima'.b \in Rango(hijos[ultima'.a])) =>
        /\ hijos'[ultima'.a] # hijos[ultima'.a]
        /\ padres'[ultima'.b] # padres[ultima'.b]
        /\ \A n \in Ids \ {ultima'.a} : hijos'[n] = hijos[n]
        /\ \A n \in Ids \ {ultima'.b} : padres'[n] = padres[n]
        /\ restricciones_heredadas' = restricciones_heredadas
        /\ \A n \in Ids : restricciones_propias(n) = {}
        /\ homologos' = homologos
        /\ nombre' = nombre
        /\ nodos' = nodos
        /\ siguiente_id' = siguiente_id

\* C16: Unlink(p, c) on an existing edge changes only p's children and c's
\* parents; the inherited layers of every node (c and its descendants
\* included), the own constraints, the homologs, the names, the registry and
\* the id counter stay as they were.
C16_UnlinkFrame == [][UnlinkSoloEnlace]_vars

\* an existing edge was removed and the child, now without parents, still has
\* the layers it inherited
C16_Witness ==
    /\ ultima.op = "Unlink" /\ ultima.ret /\ UltimaAristaExistia
    /\ ultima.b \notin Rango(hijos[ultima.a])
    /\ padres[ultima.b] = <<>>
    /\ restricciones_heredadas[ultima.b] # <<>>

\* ------------------------------------------------------------------ C17
\* The registered nodes other than id that carry id's name in diagram D.
MismoNombre(D, id) == {n \in D.nodos \ {id} : D.nombre[n] = D.nombre[id]}

\* C17: right after actualizarHomologos(id, nombre) for a registered id whose
\* name is nombre (the end of every AddNode and of every Rename), id's homologs
\* are exactly the other registered nodes of that name, whatever the set held
\* before, id is not among them, and each of them lists id; for an id that is
\* not registered the call changes nothing.
C17_RefreshRebuilds ==
    /\ (ultima.op \in {"AddNode", "Rename"} /\ ultima.ret) =>
          /\ homologos[ultima.a] = MismoNombre(Diag, ultima.a)
          /\ ultima.a \notin homologos[ultima.a]
          /\ \A n \in MismoNombre(Diag, ultima.a) : ultima.a \in homologos[n]
    /\ \A id \in nodos :
          LET D == actualizarHomologos(Diag, id, nombre[id])
          IN /\ D.hom[id] = MismoNombre(Diag, id)
             /\ \A n \in MismoNombre(Diag, id) : id \in D.hom[n]
    /\ \A id \in Ids \ nodos, nom \in Nombres :
          actualizarHomologos(Diag, id, nom) = Diag

\* a rename into a name another node carries, away from the name of a node
\* that listed the renamed one: the old homolog is gone from the rebuilt set
C17_Witness ==
    /\ ultima.op = "Rename" /\ ultima.ret
    /\ homologos[ultima.a] # {}
    /\ \E n \in nodos \ (homologos[ultima.a] \cup {ultima.a}) :
          ultima.a \in homologos[n]

\* ------------------------------------------------------------------ C18
\* The depth at which a recursion must start so that nesting more calls than
\* there are registered nodes would pass the recursion limit.
ProfInicial == LimiteRecursion + 1 - Cardinality(nodos)

\* C18: every operation terminates from every reachable state. No call has
\* run into the recursion limit; from any registered node the propagation of
\* layers (which keeps no visited set) and the cascade of eliminarNodo nest at
\* most as many calls as there are registered nodes, also where a node is
\* reached along several paths; the cycle guard's search answers for every
\* pair of ids, and so every Link and every DeleteNode that can come next
\* returns.
C18_OperationsTerminate ==
    /\ ~ultima.exc
    /\ \A n \in nodos : ~propagarRestricciones(Diag, n, ProfInicial).exc
    /\ \A n \in nodos : ~eliminarNodo(Diag, n, ProfInicial).exc
    /\ \A p \in Ids, c \in Ids :
          /\ tiene_descendiente(Diag, {}, c, p).v \subseteq nodos \cup {c}
          /\ ~enlazarNodos(Diag, p, c).exc

\* a successful link above a node whose child has a second parent: the
\* propagation ran through a node that two paths reach
C18_Witness ==
    /\ ultima.op = "Link" /\ ultima.ret /\ ~ultima.exc
    /\ \E d \in Rango(hijos[ultima.b]) :
          /\ Len(padres[d]) >= 2
          /\ d \in Rango(hijos[ultima.a])

\* ------------------------------------------------------------------ C19
\* The existing edges, and the registered nodes without parent and child.
Aristas == {<<p, c>> \in nodos \X Ids : c \in Rango(hijos[p])}

Aislados == {n \in nodos : hijos[n] = <<>> /\ padres[n] = <<>>}

\* The body of the rendered text: what follows "graph TD".
Cuerpo == Tail(construirDiagrama(Diag))

SinRepetidos(s) == \A i \in 1..Len(s), j \in 1..Len(s) : s[i] = s[j] => i = j

\* The number of entries in the hijos lists of the nodes of S.
RECURSIVE TotalHijos(_)
TotalHijos(S) ==
    IF S = {} THEN 0
    ELSE LET n == CHOOSE x \in S : TRUE
         IN Len(hijos[n]) + TotalHijos(S \ {n})

\* C20: there are no duplicate edges. In every reachable state no node occurs
\* twice in the children of a registered node nor twice in its parents, so the
\* child references of all nodes are as many as the distinct edges.
C20_NoDuplicateEdges ==
    /\ \A n \in nodos : SinRepetidos(hijos[n]) /\ SinRepetidos(padres[n])
    /\ TotalHijos(nodos) = Cardinality({<<p, c>> \in nodos \X Ids : c \in Rango(hijos[p])})

\* a link asked a second time for an edge that exists: declined, the lists
\* as they were
C20_Witness ==
    /\ ultima.op = "Link" /\ ~ultima.ret /\ UltimaAristaExistia
    /\ hijos = ultima.hijos /\ padres = ultima.padres
    /\ Len(hijos[ultima.a]) >= 2

\* ------------------------------------------------------------------ C12
\* Some node is below itself along children edges.
HayCiclo == \E n \in Ids : n \in Descendientes(hijos, n)

\* Both threads are back from calls Link(a, b) and Link(b, a) on two distinct
\* registered nodes, and both edges are in place.
AmbosEnlazaron ==
    /\ \A h \in Hilos : hilos[h].pc = "fin"
    /\ hilos[1].padre = hilos[2].hijo /\ hilos[1].hijo = hilos[2].padre
    /\ hilos[1].padre # hilos[1].hijo
    /\ hilos[1].hijo \in Rango(hijos[hilos[1].padre])
    /\ hilos[2].hijo \in Rango(hijos[hilos[2].padre])

\* C12 as stated: Link(a, b) and Link(b, a), interleaved so that each passes
\* its checks before the other appends its edge, both return true and leave
\* the cycle a -> b -> a.
C12_BothLinksReturnTrue ==
    AmbosEnlazaron => \A h \in Hilos : hilos[h].ret

\* C12: without serialization two interleaved Link calls can leave a cycle,
\* which the atomic calls cannot (C4). Whenever a cycle is in place, a call
\* that appended one of its edges is still running or has ended in the
\* unbounded recursion of its propagation: the calls never all return true
\* over a cycle. For Link(a, b) and Link(b, a) at most one returns true.
C12_InterleavedLinksCycle ==
    /\ HayCiclo => \E h \in Hilos :
          hilos[h].pc \in {"padres", "capas", "propagar"} \/ hilos[h].exc
    /\ AmbosEnlazaron =>
          /\ HayCiclo
          /\ \E h \in Hilos : hilos[h].exc /\ ~hilos[h].ret

\* the cycle a -> b -> a left by Link(a, b), which returned true, and
\* Link(b, a), whose propagation ran round the cycle until it raised
C12_Witness ==
    /\ AmbosEnlazaron /\ HayCiclo
    /\ \E h \in Hilos, k \in Hilos : hilos[h].ret /\ hilos[k].exc

\* ------------------------------------------------------------------ C21
\* C21: nodo_raiz_id is set when the diagram is built and no operation
\* changes it. After any sequence of AddNode, DeleteNode, Link, Unlink and
\* Rename it is still 1, also once DeleteNode(1) has removed the root:
\* DeleteNode(1) on a registered root is not refused (it returns true and the
\* root leaves the registry), and no DeleteNode that can come next clears or
\* reassigns the root id.
C21_RootIdFixed ==
    /\ nodo_raiz_id = 1
    /\ (ultima.op = "DeleteNode" /\ ultima.a = 1 /\ 1 \in ultima.nodos) =>
          ultima.ret /\ 1 \notin nodos
    /\ \A id \in Ids : eliminarNodo(Diag, id, 1).d.raiz = nodo_raiz_id

\* DeleteNode(1) has removed the root while another island stays registered:
\* the root id still says 1, which is no longer a registered node
C21_Witness ==
    /\ ultima.op = "DeleteNode" /\ ultima.a = 1 /\ ultima.ret
    /\ 1 \in ultima.nodos /\ 1 \notin nodos /\ nodos # {}
    /\ nodo_raiz_id = 1

====
